---- MODULE Spec2Model ----
(***************************************************************************)
(* Connection supervisor of the WhatsApp bot (class WhatsAppBot).          *)
(*                                                                         *)
(* The supervisor's fields are the state; every transport event handler,   *)
(* every public method and every continuation after an await is an action. *)
(* The transport (baileys sockets), the timer queue and the credential     *)
(* directory auth_baileys are the environment the handlers act upon.       *)
(***************************************************************************)
EXTENDS Integers, FiniteSets, Sequences, TLC

\* ---------------------------------------------------------------- bounds
MaxSocks == 2          \* transport sockets alive at once
MaxAttempts == 4       \* cap of this.reconnectAttempts
MaxCredCloses == 4     \* cap of the history counters of credential closes
MaxTimers == 2         \* setTimeout(() => this.start()) callbacks pending at once
MaxText == 1           \* tokens in the text of an inbound message
MaxBatch == 2          \* messages in one messages.upsert event
MaxUpdates == 3        \* updates in one messages.update batch
MaxReply == 2          \* tokens in a response of the AI collaborator
MaxInflight == 1       \* start() invocations suspended at an await at once

\* ------------------------------------------------------ program constants
maxReconnectAttempts == 3
\* DisconnectReason.loggedOut of the baileys library
loggedOut == 401
\* statusCode of a close whose lastDisconnect carries no error (undefined)
NoCode == 0
\* a close code that is neither a credential rejection nor the logout code
\* (DisconnectReason.connectionLost / timedOut)
TransientCode == 408

CredCodes == {405, 401, 403}
Codes == CredCodes \cup {NoCode, TransientCode, loggedOut}

NoSock == 0
NoQR == 0
QRs == {1}
SockIds == 1..MaxSocks
TimerSrcs == {"reconnect", "logout"}
TimerTags == [src : TimerSrcs, stale : BOOLEAN]

VARIABLES
    sock,               \* this.sock (NoSock = null)
    currentQR,          \* this.currentQR (NoQR = null)
    connectionStatus,   \* this.connectionStatus
    reconnectAttempts,  \* this.reconnectAttempts
    isReconnecting,     \* this.isReconnecting
    socks,              \* transport sockets made by makeWASocket, by slot: "free"
                        \*   (none, or ended), "pairing" (connecting, no saved
                        \*   session), "resuming" (connecting, saved session), "open"
    creds,              \* TRUE iff auth_baileys holds saved credentials
    timers,             \* pending setTimeout(() => this.start()) callbacks, by tag
    startsAuth,         \* start() invocations awaiting useMultiFileAuthState
    startsVer,          \* start() invocations awaiting fetchLatestBaileysVersion,
                        \*   by whether the loaded auth state was registered
    logoutPc,           \* position of the logout() invocation in flight
    watch,              \* history switch: TRUE in the runs that count closes
    credCloses,         \* history: credential closes since the last open / logout()
    credClosesT,        \* history: the same, also reset by a transient close
    lastOp,             \* history: the handler that ran last and what it did
    pc,                 \* messages.upsert handler in flight: the await it is at
    msg,                \* m.messages[0] of the event being dispatched
    loc,                \* locals of the handler in flight
    mode,               \* humanModeManager: persisted mode of the identity dispatched
    history,            \* sessionManager: stored messages of that identity
    followUp,           \* followUpService: a follow-up is pending for that identity
    logs,               \* logger entries written by the cycle in flight, in order
    sends,              \* sock.sendMessage calls issued by the cycle, in order
    calls,              \* collaborator calls of the cycle, in order
    before,             \* history: the stores when the event arrived, and whether
                        \*   the mode has been AI at any instant since
    dash,               \* POST /api/send-message request in flight
    stored,             \* logger: status stored for a message id ("none": no row yet)
    updates,            \* the batch the messages.update handler is iterating over
    outcomes,           \* history: what became of each update handled so far
    written,            \* history: the status writes that have settled
    peer                \* a second messages.upsert cycle of the same identity

svars == <<sock, currentQR, connectionStatus, reconnectAttempts, isReconnecting,
           socks, creds, timers, startsAuth, startsVer, logoutPc,
           watch, credCloses, credClosesT, lastOp>>

tvars == <<stored, updates, outcomes, written>>

pvars == <<peer>>

dvars == <<pc, msg, loc, mode, history, followUp, logs, sends, calls,
           before, dash, tvars, pvars>>

vars == <<svars, dvars>>

hist == <<watch, credCloses, credClosesT>>

supVars == <<sock, currentQR, connectionStatus, reconnectAttempts, isReconnecting>>

\* ---------------------------------------------------------------- helpers
\* lastOp: op the handler, code the close code, purges the clearSession calls
\* made, sched the timers set, cleanup / followUp the sockets the dependent
\* timers were armed with (one entry per call), noop an early return, src and
\* stale the timer that called start()
Op(name) == [op |-> name, code |-> NoCode, purges |-> 0, sched |-> 0,
             cleanup |-> <<>>, followUp |-> <<>>, noop |-> FALSE,
             stale |-> FALSE, src |-> "none"]

RECURSIVE SumOver(_, _)
SumOver(f, S) ==
    IF S = {} THEN 0
    ELSE LET x == CHOOSE y \in S : TRUE IN f[x] + SumOver(f, S \ {x})

PendingTimers == SumOver(timers, TimerTags)
InflightStarts == startsAuth + startsVer[TRUE] + startsVer[FALSE]
\* a slot of the transport is free once its socket has ended
FreeSlots == {s \in SockIds : socks[s] = "free"}
Connecting(s) == socks[s] \in {"pairing", "resuming"}
Alive(s) == socks[s] # "free"

\* setTimeout(() => this.start(), delay)
\* a history counter moves only in the runs that watch it
Count(new, old) == IF watch THEN new ELSE old

SetTimeout(tm, src) ==
    LET tag == [src |-> src, stale |-> FALSE]
    IN [tm EXCEPT ![tag] = @ + 1]

\* ------------------------------------------------- dispatcher: data
\* A text is a sequence of tokens: "a" a word, "_" a whitespace character,
\* "M" the handoff marker {{ACTIVAR_SOPORTE}}.
Space == "_"
Marker == "M"

RECURSIVE SeqsUpTo(_, _)
SeqsUpTo(S, n) ==
    IF n = 0 THEN {<<>>}
    ELSE LET shorter == SeqsUpTo(S, n - 1)
         IN shorter \cup {Append(t, x) : t \in {u \in shorter : Len(u) = n - 1}, x \in S}

Texts == SeqsUpTo({"a", Space}, MaxText)
Replies == SeqsUpTo({"a", Space, Marker}, MaxReply)

\* String.prototype.trim
RECURSIVE TrimLeft(_)
TrimLeft(t) == IF t # <<>> /\ Head(t) = Space THEN TrimLeft(Tail(t)) ELSE t
RECURSIVE TrimRight(_)
TrimRight(t) ==
    IF t # <<>> /\ t[Len(t)] = Space THEN TrimRight(SubSeq(t, 1, Len(t) - 1)) ELSE t
Trim(t) == TrimRight(TrimLeft(t))

\* String.prototype.includes(marker)
Includes(t, tok) == \E i \in 1..Len(t) : t[i] = tok

\* String.prototype.replace(marker, ''): the first occurrence only
ReplaceFirst(t, tok) ==
    IF ~Includes(t, tok) THEN t
    ELSE LET i == CHOOSE k \in 1..Len(t) :
                    t[k] = tok /\ \A j \in 1..(k - 1) : t[j] # tok
         IN SubSeq(t, 1, i - 1) \o SubSeq(t, i + 1, Len(t))

\* transport addresses: a direct chat, a business linked device, a group
Jid(id, suffix) == [id |-> id, suffix |-> suffix]
NoJid == Jid("", "")
PhoneJid == Jid("A", "@s.whatsapp.net")
LidJid == Jid("L", "@lid")
GroupJid == Jid("G", "@g.us")

extractUserId(remoteJid) == IF remoteJid = NoJid THEN "" ELSE remoteJid.id

\* String.prototype.endsWith('@g.us')
IsGroupJid(jid) == jid.suffix = "@g.us"

\* an event with an empty message list: m.messages[0] is undefined
NoMsg == [count |-> 0, hasMessage |-> FALSE, fromMe |-> FALSE, text |-> <<>>,
          remoteJid |-> NoJid, senderPn |-> NoJid]

\* the events of messages.upsert: count is m.messages.length, the other
\* fields are m.messages[0]; the further messages of an event are more of the
\* same from the same sender
Msgs ==
    {NoMsg} \cup
    [count : 1..MaxBatch, hasMessage : BOOLEAN, fromMe : BOOLEAN, text : Texts,
     remoteJid : {PhoneJid, LidJid, GroupJid}, senderPn : {NoJid, PhoneJid}]

Modes == {"ai", "human", "support"}

\* what the AI collaborator and the transport reject with (error.message)
AIErrors == {"Error generando respuesta", "Error de autenticacion con API key"}
SendError == "Chat not found"
NoError == "none"
\* a rejection with a value that has no message property (a string, null)
NoMessage == "undefined"
\* what reading a property of undefined throws
TypeError == "TypeError"

\* error.message.includes('autenticacion') || error.message.includes('API key')
IsConfigError(e) == e = "Error de autenticacion con API key"

Apology == <<"Lo siento, ocurrio un error. Intentalo de nuevo.">>
ConfigApology == <<"Error de configuracion del bot. Por favor, contacta al administrador.">>

\* the id the transport assigns to a message it sent
SentId == 1
NoId == 0

NoLocals == [userId |-> "", groupName |-> "", isHuman |-> FALSE,
             isSupport |-> FALSE, enabled |-> TRUE, aiResponse |-> <<>>,
             cleanResponse |-> <<>>, response |-> <<>>, messageId |-> NoId,
             error |-> NoError]

NoDash == [pc |-> "idle", sent |-> 0, logged |-> FALSE, status |-> 0]

\* the numeric status codes of the transport; 0 stands for a missing one
StatusCodes == 0..4
MessageIds == {NoId, SentId}

\* an element of a messages.update batch: [key: {id}, update: {status}];
\* hasKey = FALSE is an element without key
Updates ==
    {[hasKey |-> FALSE, id |-> NoId, status |-> 0]} \cup
    [hasKey : {TRUE}, id : MessageIds, status : StatusCodes]

Statuses == {"none", "sent", "delivered", "read"}

\* no status stored, no batch being handled
NoStatus ==
    /\ stored = [i \in {SentId} |-> "none"]
    /\ updates = <<>>
    /\ outcomes = <<>>
    /\ written = {}

\* no second cycle is in flight
NoPeer == [pc |-> "idle", text |-> <<>>, response |-> <<>>]

\* no event is being dispatched, no dashboard request is in flight, no status
\* batch is being handled
NoDispatch ==
    /\ pc = "idle"
    /\ msg = NoMsg
    /\ loc = NoLocals
    /\ mode = "ai"
    /\ history = <<>>
    /\ followUp = FALSE
    /\ logs = <<>>
    /\ sends = <<>>
    /\ calls = <<>>
    /\ before = [mode |-> "ai", history |-> <<>>, followUp |-> FALSE, sawAI |-> TRUE]
    /\ dash = NoDash
    /\ NoStatus
    /\ peer = NoPeer

TypeOK ==
    /\ sock \in {NoSock} \cup SockIds
    /\ currentQR \in {NoQR} \cup QRs
    /\ connectionStatus \in {"disconnected", "connecting", "connected"}
    /\ reconnectAttempts \in Nat
    /\ isReconnecting \in BOOLEAN
    /\ socks \in [SockIds -> {"free", "pairing", "resuming", "open"}]
    /\ creds \in BOOLEAN
    /\ timers \in [TimerTags -> 0..MaxTimers]
    /\ startsAuth \in 0..MaxInflight
    /\ startsVer \in [BOOLEAN -> 0..MaxInflight]
    /\ logoutPc \in {"idle", "sockLogout", "clearSession"}
    /\ watch \in BOOLEAN
    /\ credCloses \in 0..MaxCredCloses
    /\ credClosesT \in 0..credCloses

\* constructor(); the credential directory may or may not hold a saved session
Constructed ==
    /\ sock = NoSock
    /\ currentQR = NoQR
    /\ connectionStatus = "disconnected"
    /\ reconnectAttempts = 0
    /\ isReconnecting = FALSE
    /\ socks = [s \in SockIds |-> "free"]
    /\ creds \in BOOLEAN
    /\ timers = [t \in TimerTags |-> 0]
    /\ startsAuth = 0
    /\ startsVer = [b \in BOOLEAN |-> 0]
    /\ logoutPc = "idle"
    /\ credCloses = 0
    /\ credClosesT = 0
    /\ lastOp = Op("init")

Init == Constructed /\ NoDispatch /\ watch = FALSE

InitWatch == Constructed /\ NoDispatch /\ watch = TRUE

\* ------------------------------------------------------- WhatsAppBot.start
\* start() past the guard: take the guard and suspend at useMultiFileAuthState
StartBegin(tm, o) ==
    /\ UNCHANGED dvars
    /\ InflightStarts < MaxInflight
    /\ isReconnecting' = TRUE
    /\ startsAuth' = startsAuth + 1
    /\ timers' = tm
    /\ lastOp' = o
    /\ UNCHANGED <<sock, currentQR, connectionStatus, reconnectAttempts, socks,
                   creds, startsVer, logoutPc,
                   hist>>

\* start() with the early return of the guard removed
startNoGuard(tm, o) == StartBegin(tm, o)

\* start(): return at once while isReconnecting, else begin an attempt
start(tm, o) ==
    IF isReconnecting
    THEN /\ timers' = tm
         /\ lastOp' = [o EXCEPT !.noop = TRUE]
         /\ UNCHANGED dvars
         /\ UNCHANGED <<sock, currentQR, connectionStatus, reconnectAttempts,
                        isReconnecting, socks, creds, startsAuth, startsVer,
                        logoutPc, hist>>
    ELSE StartBegin(tm, o)

\* start() called by the embedding program (index.js, the dashboard)
StartCall == start(timers, [Op("start") EXCEPT !.src = "ext"])

\* a pending setTimeout(() => this.start()) callback fires
TimerFire ==
    \E tag \in TimerTags :
        /\ timers[tag] > 0
        /\ start([timers EXCEPT ![tag] = @ - 1],
                 [Op("start") EXCEPT !.src = tag.src, !.stale = tag.stale])

\* useMultiFileAuthState resolves with the credentials found on disk
StartAuthLoaded ==
    /\ UNCHANGED dvars
    /\ startsAuth > 0
    /\ startsAuth' = startsAuth - 1
    /\ startsVer' = [startsVer EXCEPT ![creds] = @ + 1]
    /\ lastOp' = Op("authLoaded")
    /\ UNCHANGED <<sock, currentQR, connectionStatus, reconnectAttempts,
                   isReconnecting, socks, creds, timers, logoutPc, hist>>

\* fetchLatestBaileysVersion resolves; makeWASocket creates the socket and the
\* handlers of creds.update, connection.update, messages.* are registered on it
StartSocket ==
    \E reg \in BOOLEAN :
        /\ startsVer[reg] > 0
        /\ FreeSlots # {}
        /\ UNCHANGED dvars
        /\ LET s == CHOOSE x \in FreeSlots : \A y \in FreeSlots : x <= y IN
            /\ sock' = s
            /\ socks' = [socks EXCEPT ![s] = IF reg THEN "resuming" ELSE "pairing"]
            /\ lastOp' = Op("socket")
        /\ startsVer' = [startsVer EXCEPT ![reg] = @ - 1]
        /\ UNCHANGED <<currentQR, connectionStatus, reconnectAttempts,
                       isReconnecting, creds, timers, startsAuth, logoutPc, hist>>

\* the catch of start(): release the guard, retry while the budget lasts
StartCatch ==
    /\ UNCHANGED dvars
    /\ isReconnecting' = FALSE
    /\ IF reconnectAttempts < maxReconnectAttempts
       THEN /\ PendingTimers < MaxTimers
            /\ reconnectAttempts' = reconnectAttempts + 1
            /\ timers' = SetTimeout(timers, "reconnect")
            /\ lastOp' = [Op("catch") EXCEPT !.sched = 1]
       ELSE /\ UNCHANGED <<reconnectAttempts, timers>>
            /\ lastOp' = Op("catch")
    /\ UNCHANGED <<sock, currentQR, connectionStatus, socks, creds, logoutPc, hist>>

\* an awaited call inside the try of start() rejects
StartFail ==
    \/ /\ startsAuth > 0
       /\ startsAuth' = startsAuth - 1
       /\ UNCHANGED startsVer
       /\ StartCatch
    \/ \E reg \in BOOLEAN :
        /\ startsVer[reg] > 0
        /\ startsVer' = [startsVer EXCEPT ![reg] = @ - 1]
        /\ UNCHANGED startsAuth
        /\ StartCatch

\* the ways config.validateApiKey() ends: it returns on a valid key and throws
\* on an invalid one
validateApiKey == {"returns", "throws"}

\* start() past the guard with config.validateApiKey() throwing (line 44): the
\* guard was taken at line 42, the call stands before the try of line 46, so
\* the exception leaves start() and its promise rejects; no await was reached
startRejected(tm, o) ==
    /\ UNCHANGED dvars
    /\ ~isReconnecting
    /\ "throws" \in validateApiKey
    /\ isReconnecting' = TRUE
    /\ timers' = tm
    /\ lastOp' = [o EXCEPT !.op = "startRejected"]
    /\ UNCHANGED <<sock, currentQR, connectionStatus, reconnectAttempts, socks,
                   creds, startsAuth, startsVer, logoutPc, hist>>

\* the start() of the embedding program at boot finds the API key invalid
BootRejected ==
    /\ lastOp.op = "init"
    /\ startRejected(timers, [Op("start") EXCEPT !.src = "ext"])

\* the start() of a setTimeout callback finds the API key invalid
TimerFireRejected ==
    \E tag \in TimerTags :
        /\ timers[tag] > 0
        /\ startRejected([timers EXCEPT ![tag] = @ - 1],
                         [Op("start") EXCEPT !.src = tag.src, !.stale = tag.stale])

\* ------------------------------------------------ WhatsAppBot.clearSession
\* fsPromises.rm(auth_baileys): the saved credentials are gone
clearSession == creds' = FALSE

\* ------------------------------------------- connection.update: qr present
OnQR(s, q) ==
    /\ UNCHANGED dvars
    /\ currentQR' = q
    /\ connectionStatus' = "connecting"
    /\ lastOp' = Op("qr")
    /\ UNCHANGED <<sock, reconnectAttempts, isReconnecting, socks, creds, timers,
                   startsAuth, startsVer, logoutPc,
                   hist>>

\* the transport asks for pairing: only a socket started without a registered
\* session does, and only before it opens
SockQR ==
    \E s \in SockIds, q \in QRs :
        /\ socks[s] = "pairing"
        /\ OnQR(s, q)

\* ------------------------------------ connection.update: connection 'close'
\* the credential branch without the limit: it always purges and reschedules
CloseCredentialNoLimit(o) ==
    /\ reconnectAttempts < MaxAttempts
    /\ credCloses < MaxCredCloses
    /\ PendingTimers < MaxTimers
    /\ reconnectAttempts' = reconnectAttempts + 1
    /\ credCloses' = Count(credCloses + 1, credCloses)
    /\ credClosesT' = Count(credClosesT + 1, credClosesT)
    /\ isReconnecting' = FALSE
    /\ clearSession
    /\ timers' = SetTimeout(timers, "reconnect")
    /\ lastOp' = [o EXCEPT !.purges = 1, !.sched = 1]

\* the credential branch with clearSession moved before the limit check
CloseCredentialPurgeFirst(o) ==
    /\ reconnectAttempts < MaxAttempts
    /\ credCloses < MaxCredCloses
    /\ reconnectAttempts' = reconnectAttempts + 1
    /\ credCloses' = Count(credCloses + 1, credCloses)
    /\ credClosesT' = Count(credClosesT + 1, credClosesT)
    /\ isReconnecting' = FALSE
    /\ clearSession
    /\ IF reconnectAttempts + 1 > maxReconnectAttempts
       THEN /\ UNCHANGED timers
            /\ lastOp' = [o EXCEPT !.purges = 1]
       ELSE /\ PendingTimers < MaxTimers
            /\ timers' = SetTimeout(timers, "reconnect")
            /\ lastOp' = [o EXCEPT !.purges = 1, !.sched = 1]

\* the branch taken for a credential-rejection code
CloseCredential(o) ==
    /\ reconnectAttempts < MaxAttempts
    /\ credCloses < MaxCredCloses
    /\ reconnectAttempts' = reconnectAttempts + 1
    /\ credCloses' = Count(credCloses + 1, credCloses)
    /\ credClosesT' = Count(credClosesT + 1, credClosesT)
    /\ isReconnecting' = FALSE
    /\ IF reconnectAttempts + 1 > maxReconnectAttempts
       THEN /\ UNCHANGED <<creds, timers>>
            /\ lastOp' = o
       ELSE /\ PendingTimers < MaxTimers
            /\ clearSession
            /\ timers' = SetTimeout(timers, "reconnect")
            /\ lastOp' = [o EXCEPT !.purges = 1, !.sched = 1]

\* the transient branch without the reset of the counter
CloseTransientKeepsCounter(o) ==
    /\ PendingTimers < MaxTimers
    /\ credClosesT' = Count(0, credClosesT)
    /\ isReconnecting' = FALSE
    /\ timers' = SetTimeout(timers, "reconnect")
    /\ lastOp' = [o EXCEPT !.sched = 1]
    /\ UNCHANGED <<reconnectAttempts, creds, credCloses, watch>>

\* the transient branch without its setTimeout
CloseTransientNoTimer(o) ==
    /\ PendingTimers < MaxTimers
    /\ reconnectAttempts' = 0
    /\ credClosesT' = Count(0, credClosesT)
    /\ isReconnecting' = FALSE
    /\ lastOp' = o
    /\ UNCHANGED <<creds, timers, credCloses, watch>>

\* the branch taken for every other code that is not the logout code
CloseTransient(o) ==
    /\ PendingTimers < MaxTimers
    /\ reconnectAttempts' = 0
    /\ credClosesT' = Count(0, credClosesT)
    /\ isReconnecting' = FALSE
    /\ timers' = SetTimeout(timers, "reconnect")
    /\ lastOp' = [o EXCEPT !.sched = 1]
    /\ UNCHANGED <<creds, credCloses, watch>>

\* the final else: only the guard is released
CloseTerminal(o) ==
    /\ isReconnecting' = FALSE
    /\ lastOp' = o
    /\ UNCHANGED <<reconnectAttempts, creds, timers, credCloses, credClosesT>>

OnClose(s, code, o) ==
    LET shouldReconnect == code # loggedOut IN
    /\ UNCHANGED dvars
    /\ connectionStatus' = "disconnected"
    /\ socks' = [socks EXCEPT ![s] = "free"]
    /\ IF code = 405 \/ code = 401 \/ code = 403
       THEN CloseCredential(o)
       ELSE IF shouldReconnect /\ code # loggedOut
            THEN CloseTransient(o)
            ELSE CloseTerminal(o)
    /\ UNCHANGED <<sock, currentQR, startsAuth, startsVer, logoutPc, watch>>

\* the transport closes a socket, once per socket, with any code
SockClose ==
    \E s \in SockIds, code \in Codes :
        /\ Alive(s)
        /\ OnClose(s, code, [Op("close") EXCEPT !.code = code])

\* ------------------------------------- connection.update: connection 'open'
\* the open handler without the reset of the counter
OnOpenKeepsCounter(s) ==
    /\ UNCHANGED dvars
    /\ currentQR' = NoQR
    /\ connectionStatus' = "connected"
    /\ isReconnecting' = FALSE
    /\ credCloses' = 0
    /\ credClosesT' = 0
    /\ lastOp' = [Op("open") EXCEPT !.cleanup = <<sock>>, !.followUp = <<sock>>]
    /\ UNCHANGED <<sock, reconnectAttempts, creds, timers, startsAuth, startsVer,
                   logoutPc, watch>>

OnOpen(s) ==
    /\ UNCHANGED dvars
    /\ currentQR' = NoQR
    /\ connectionStatus' = "connected"
    /\ reconnectAttempts' = 0
    /\ isReconnecting' = FALSE
    /\ credCloses' = 0
    /\ credClosesT' = 0
    /\ lastOp' = [Op("open") EXCEPT !.cleanup = <<sock>>, !.followUp = <<sock>>]
    /\ UNCHANGED <<sock, creds, timers, startsAuth, startsVer, logoutPc, watch>>

SockOpen ==
    \E s \in SockIds :
        /\ Connecting(s)
        /\ socks' = [socks EXCEPT ![s] = "open"]
        /\ OnOpen(s)

\* ------------------------------------------------ creds.update: saveCreds
CredsUpdate ==
    \E s \in SockIds :
        /\ Alive(s)
        /\ ~creds
        /\ UNCHANGED dvars
        /\ creds' = TRUE
        /\ lastOp' = Op("creds")
        /\ UNCHANGED <<sock, currentQR, connectionStatus, reconnectAttempts,
                       isReconnecting, socks, timers, startsAuth, startsVer,
                       logoutPc, hist>>

\* -------------------------------------------------------- WhatsAppBot.stop
\* stop() ending the session the way logout() does: the socket closes with the
\* logout code
StopAsLogout ==
    IF sock # NoSock /\ Alive(sock)
    THEN OnClose(sock, loggedOut, Op("stop"))
    ELSE /\ lastOp' = [Op("stop") EXCEPT !.noop = TRUE]
         /\ UNCHANGED dvars
         /\ UNCHANGED <<sock, currentQR, connectionStatus, reconnectAttempts,
                        isReconnecting, socks, creds, timers, startsAuth,
                        startsVer, logoutPc, hist>>

\* this.sock.end(): a socket still alive closes at once, with no error, and
\* its close handler runs; an ended socket ignores the call
Stop ==
    IF sock # NoSock /\ Alive(sock)
    THEN OnClose(sock, NoCode, Op("stop"))
    ELSE /\ lastOp' = [Op("stop") EXCEPT !.noop = TRUE]
         /\ UNCHANGED dvars
         /\ UNCHANGED <<sock, currentQR, connectionStatus, reconnectAttempts,
                        isReconnecting, socks, creds, timers, startsAuth,
                        startsVer, logoutPc,
                        hist>>

\* ------------------------------------------------------ WhatsAppBot.logout
\* history only: the timers pending when logout() is called
MarkStale(tm) ==
    [t \in TimerTags |->
        IF t.stale THEN tm[t] + tm[[t EXCEPT !.stale = FALSE]] ELSE 0]

\* logout() up to its first await
LogoutBegin ==
    /\ UNCHANGED dvars
    /\ logoutPc = "idle"
    /\ connectionStatus' = "disconnected"
    /\ currentQR' = NoQR
    /\ reconnectAttempts' = 0
    /\ isReconnecting' = FALSE
    /\ credCloses' = 0
    /\ credClosesT' = 0
    /\ timers' = MarkStale(timers)
    /\ IF sock # NoSock
       THEN /\ logoutPc' = "sockLogout"
            /\ lastOp' = Op("logout")
            /\ UNCHANGED creds
       ELSE /\ logoutPc' = "clearSession"
            /\ clearSession
            /\ lastOp' = [Op("logout") EXCEPT !.purges = 1]
    /\ UNCHANGED <<sock, socks, startsAuth, startsVer, watch>>

\* this.sock.logout() settles (its rejection is swallowed); clearSession starts
LogoutSockSettled ==
    /\ UNCHANGED dvars
    /\ logoutPc = "sockLogout"
    /\ logoutPc' = "clearSession"
    /\ clearSession
    /\ lastOp' = [Op("logoutClear") EXCEPT !.purges = 1]
    /\ UNCHANGED <<sock, currentQR, connectionStatus, reconnectAttempts,
                   isReconnecting, socks, timers, startsAuth, startsVer, hist>>

\* clearSession settles; the restart is scheduled
LogoutRestart ==
    /\ UNCHANGED dvars
    /\ logoutPc = "clearSession"
    /\ PendingTimers < MaxTimers
    /\ logoutPc' = "idle"
    /\ timers' = SetTimeout(timers, "logout")
    /\ lastOp' = [Op("logoutRestart") EXCEPT !.sched = 1]
    /\ UNCHANGED <<sock, currentQR, connectionStatus, reconnectAttempts,
                   isReconnecting, socks, creds, startsAuth, startsVer, hist>>

\* ------------------------------------------------------------ specification
Next ==
    \/ StartCall
    \/ TimerFire
    \/ StartAuthLoaded
    \/ StartSocket
    \/ StartFail
    \/ SockQR
    \/ SockClose
    \/ SockOpen
    \/ CredsUpdate
    \/ Stop
    \/ LogoutBegin
    \/ LogoutSockSettled
    \/ LogoutRestart

Spec == Init /\ [][Next]_vars

\* the supervisor left to itself: one start() at boot, then transport events
\* and timers only
Boot ==
    /\ lastOp.op = "init"
    /\ StartCall

NextUnattended ==
    \/ Boot
    \/ TimerFire
    \/ StartAuthLoaded
    \/ StartSocket
    \/ StartFail
    \/ SockQR
    \/ SockClose
    \/ SockOpen
    \/ CredsUpdate

SpecUnattended == InitWatch /\ [][NextUnattended]_vars

\* the supervisor left to itself, with every pending setTimeout callback
\* eventually run
SpecUnattendedFair ==
    InitWatch /\ [][NextUnattended]_vars /\ WF_vars(TimerFire)

\* the supervisor as deployed: start() once at boot, then transport events,
\* timers, and the operator's stop() and logout()
NextOperated ==
    \/ Boot
    \/ TimerFire
    \/ StartAuthLoaded
    \/ StartSocket
    \/ StartFail
    \/ SockQR
    \/ SockClose
    \/ SockOpen
    \/ CredsUpdate
    \/ Stop
    \/ LogoutBegin
    \/ LogoutSockSettled
    \/ LogoutRestart

SpecOperated == Init /\ [][NextOperated]_vars

\* the supervisor left to itself with a configuration whose API key may be
\* found invalid by any start(): config.validateApiKey() returns or throws
NextValidated ==
    \/ Boot
    \/ BootRejected
    \/ TimerFire
    \/ TimerFireRejected
    \/ StartAuthLoaded
    \/ StartSocket
    \/ StartFail
    \/ SockQR
    \/ SockClose
    \/ SockOpen
    \/ CredsUpdate

SpecValidated == InitWatch /\ [][NextValidated]_vars

\* ------------------------------------------------ messages.upsert handler
\* One event is followed from its arrival to the handler's return, from any
\* content the stores may hold for its identity. pc names the awaited call in
\* flight; an action is that call settling and the handler running on to its
\* next await. A collaborator acts on its store when its call settles.

\* logger.log(kind, text, userId, name, ..., messageId)
LogEntry(kind, text, userId, name, messageId) ==
    [kind |-> kind, text |-> text, userId |-> userId, name |-> name,
     messageId |-> messageId]

\* this.sock.sendMessage(to, {text}), whether the transport accepted it and
\* the id it gave the message (sentMsg.key.id)
SendEntry(to, text, ok) ==
    [to |-> to, text |-> text, ok |-> ok, id |-> IF ok THEN SentId ELSE NoId]

HistoryEntry(role, content) == [role |-> role, content |-> content]

\* what the stores may hold for an identity when its event arrives
Histories ==
    {<<>>, <<HistoryEntry("user", <<"a">>), HistoryEntry("assistant", <<"a">>)>>}

isGroup == IsGroupJid(msg.remoteJid)
userName == IF isGroup THEN "Participante" ELSE loc.userId
displayName == IF isGroup THEN loc.groupName ELSE userName

\* humanModeManager: what its two queries answer for a stored mode
isHumanMode(md) == md = "human"
isSupportMode(md) == md = "support"

\* the handler moves on: the next awaited call and the locals, stores and
\* records as they now stand
Cycle(nextPc, nextCall, l, md, h, fu, lg, sd) ==
    /\ pc' = nextPc
    /\ calls' = IF nextCall = "" THEN calls ELSE Append(calls, nextCall)
    /\ loc' = l
    /\ mode' = md
    /\ history' = h
    /\ followUp' = fu
    /\ logs' = lg
    /\ sends' = sd
    /\ UNCHANGED <<msg, before, dash, svars, tvars, pvars>>

\* the early returns without the trim of line 210
MalformedNoTrim(m) == ~m.hasMessage \/ m.fromMe \/ m.text = <<>>

\* the early returns of lines 186-213
Malformed(m) == ~m.hasMessage \/ m.fromMe \/ m.text = <<>> \/ Trim(m.text) = <<>>

\* an event arrives; handler up to its first await
Receive ==
    \E m \in Msgs, md \in Modes, h \in Histories, fu \in BOOLEAN :
        /\ pc = "idle"
        /\ dash = NoDash
        /\ msg' = m
        /\ mode' = md
        /\ history' = h
        /\ followUp' = fu
        /\ before' = [mode |-> md, history |-> h, followUp |-> fu,
                      sawAI |-> (md = "ai")]
        /\ logs' = <<>>
        /\ sends' = <<>>
        /\ IF m.count = 0
           THEN \* msg.message throws; the catch hands m.messages[0] to
                \* handleError, whose message.key throws out of the handler
                /\ pc' = "rejected"
                /\ loc' = [NoLocals EXCEPT !.error = TypeError]
                /\ calls' = <<>>
           ELSE IF Malformed(m)
           THEN /\ pc' = "done"
                /\ loc' = NoLocals
                /\ calls' = <<>>
           ELSE IF IsGroupJid(m.remoteJid)
           THEN /\ pc' = "groupMetadata"
                /\ loc' = [NoLocals EXCEPT !.userId = m.remoteJid.id,
                                           !.groupName = "Grupo"]
                /\ calls' = <<"groupMetadata">>
           ELSE LET realPhone == IF m.senderPn # NoJid THEN m.senderPn
                                 ELSE m.remoteJid
                IN /\ pc' = "logReceipt"
                   /\ loc' = [NoLocals EXCEPT !.userId = extractUserId(realPhone)]
                   /\ calls' = <<"log">>
        /\ UNCHANGED <<dash, svars, tvars, pvars>>

\* this.sock.groupMetadata settles; a rejection keeps the default label
GroupMetadataSettles ==
    \E ok \in BOOLEAN :
        /\ pc = "groupMetadata"
        /\ Cycle("logReceipt", "log",
                 [loc EXCEPT !.groupName = IF ok THEN "subject" ELSE "Grupo"],
                 mode, history, followUp, logs, sends)

\* the receipt left unwritten: the handler goes on to the mode lookup
LogReceiptSkipped ==
    /\ pc = "logReceipt"
    /\ Cycle("isHumanMode", "isHumanMode", loc, mode, history, followUp, logs, sends)

\* logger.log('cliente', ...) settles; isHumanMode is asked
LogReceiptSettles ==
    /\ pc = "logReceipt"
    /\ Cycle("isHumanMode", "isHumanMode", loc, mode, history, followUp,
             Append(logs, LogEntry("cliente", msg.text, loc.userId, displayName, NoId)),
             sends)

\* humanModeManager.isHumanMode settles; isSupportMode is asked
IsHumanModeSettles ==
    /\ pc = "isHumanMode"
    /\ Cycle("isSupportMode", "isSupportMode",
             [loc EXCEPT !.isHuman = isHumanMode(mode)],
             mode, history, followUp, logs, sends)

\* humanModeManager.isSupportMode settles; the gate of line 250
IsSupportModeSettles ==
    LET support == isSupportMode(mode)
        l == [loc EXCEPT !.isSupport = support]
    IN /\ pc = "isSupportMode"
       /\ IF loc.isHuman \/ support
          THEN Cycle("logModeIgnored", "log", l, mode, history, followUp, logs, sends)
          ELSE Cycle("audienceFlag",
                     IF isGroup THEN "isGroupsAIEnabled" ELSE "isIndividualAIEnabled",
                     l, mode, history, followUp, logs, sends)

\* the suppression note of line 252 is written; return
LogModeIgnoredSettles ==
    LET note == IF loc.isSupport THEN <<"Mensaje ignorado - Modo SOPORTE activo">>
                ELSE <<"Mensaje ignorado - Modo HUMANO activo">>
    IN /\ pc = "logModeIgnored"
       /\ Cycle("done", "", loc, mode, history, followUp,
                Append(logs, LogEntry("SYSTEM", note, "", "", NoId)), sends)

\* the audience check with its early return missing: the flag is read and the
\* dispatch goes on whatever it says
AudienceFlagIgnored ==
    \E enabled \in BOOLEAN :
        LET l == [loc EXCEPT !.enabled = enabled]
        IN /\ pc = "audienceFlag"
           /\ IF followUp
              THEN Cycle("cancelFollowUp", "cancelFollowUp", l, mode, history,
                         followUp, logs, sends)
              ELSE Cycle("addUserMessage", "addMessage", l, mode, history,
                         followUp, logs, sends)

\* the audience check going straight on to processMessage, the pending
\* follow-up left alone
AudienceFlagNoCancel ==
    \E enabled \in BOOLEAN :
        LET l == [loc EXCEPT !.enabled = enabled]
        IN /\ pc = "audienceFlag"
           /\ IF ~enabled
              THEN Cycle("logAudienceIgnored", "log", l, mode, history, followUp,
                         logs, sends)
              ELSE Cycle("addUserMessage", "addMessage", l, mode, history,
                         followUp, logs, sends)

\* systemConfigService answers with the audience flag as it stands; lines
\* 256-278 up to the next await
AudienceFlagSettles ==
    \E enabled \in BOOLEAN :
        LET l == [loc EXCEPT !.enabled = enabled]
        IN /\ pc = "audienceFlag"
           /\ IF ~enabled
              THEN Cycle("logAudienceIgnored", "log", l, mode, history, followUp,
                         logs, sends)
              ELSE IF followUp
              THEN Cycle("cancelFollowUp", "cancelFollowUp", l, mode, history,
                         followUp, logs, sends)
              ELSE Cycle("addUserMessage", "addMessage", l, mode, history,
                         followUp, logs, sends)

\* the suppression note of line 260 or 267 is written; return
LogAudienceIgnoredSettles ==
    LET note == IF isGroup THEN <<"Mensaje de grupo ignorado - IA en grupos desactivada">>
                ELSE <<"Mensaje individual ignorado - IA individual desactivada">>
    IN /\ pc = "logAudienceIgnored"
       /\ Cycle("done", "", loc, mode, history, followUp,
                Append(logs, LogEntry("SYSTEM", note, "", "", NoId)), sends)

\* followUpService.cancelFollowUp settles; processMessage begins
CancelFollowUpSettles ==
    /\ pc = "cancelFollowUp"
    /\ Cycle("addUserMessage", "addMessage", loc, mode, history, FALSE, logs, sends)

\* sessionManager.addMessage(userId, 'user', ...) settles
AddUserMessageSettles ==
    /\ pc = "addUserMessage"
    /\ Cycle("getMessages", "getMessages", loc, mode,
             Append(history, HistoryEntry("user", msg.text)), followUp, logs, sends)

\* sessionManager.getMessages settles; the AI collaborator is called
GetMessagesSettles ==
    /\ pc = "getMessages"
    /\ Cycle("generateResponse", "generateResponse", loc, mode, history,
             followUp, logs, sends)


\* handleError up to its await: the apology goes to message.key.remoteJid;
\* error.message.includes throws out of the handler when error.message is
\* undefined
HandleError(e, sd) ==
    IF e = NoMessage
    THEN Cycle("rejected", "", [loc EXCEPT !.error = e], mode, history, followUp,
               logs, sd)
    ELSE Cycle("sendApology", "sendMessage", [loc EXCEPT !.error = e], mode,
               history, followUp, logs, sd)

\* aiService.generateResponse resolves; processMessage lines 330-349 up to the
\* next await
GenerateResponseSettles ==
    \E r \in Replies :
        /\ pc = "generateResponse"
        /\ IF Includes(r, Marker)
           THEN Cycle("setMode", "setMode",
                      [loc EXCEPT !.aiResponse = r,
                                  !.cleanResponse = Trim(ReplaceFirst(r, Marker))],
                      mode, history, followUp, logs, sends)
           ELSE Cycle("addAssistantMessage", "addMessage",
                      [loc EXCEPT !.aiResponse = r],
                      mode, history, followUp, logs, sends)

\* the rejection swallowed: the handler returns without calling handleError
GenerateResponseFailsSilent ==
    \E e \in AIErrors :
        /\ pc = "generateResponse"
        /\ Cycle("done", "", [loc EXCEPT !.error = e], mode, history, followUp,
                 logs, sends)

\* aiService.generateResponse rejects; the catch of line 294
GenerateResponseFails ==
    \E e \in AIErrors \cup {NoMessage} :
        /\ pc = "generateResponse"
        /\ HandleError(e, sends)

\* humanModeManager.setMode(userId, 'support') settles
SetModeSettles ==
    /\ pc = "setMode"
    /\ Cycle("updateSessionMode", "updateSessionMode", loc, "support", history,
             followUp, logs, sends)

\* sessionManager.updateSessionMode settles
UpdateSessionModeSettles ==
    /\ pc = "updateSessionMode"
    /\ Cycle("addAssistantMessage", "addMessage", loc, mode, history, followUp,
             logs, sends)

\* sessionManager.addMessage(userId, 'assistant', ...) settles
AddAssistantMessageSettles ==
    /\ pc = "addAssistantMessage"
    /\ IF Includes(loc.aiResponse, Marker)
       THEN Cycle("logSupport", "log", loc, mode,
                  Append(history, HistoryEntry("assistant", loc.cleanResponse)),
                  followUp, logs, sends)
       ELSE Cycle("getSession", "getSession",
                  [loc EXCEPT !.response = loc.aiResponse], mode,
                  Append(history, HistoryEntry("assistant", loc.aiResponse)),
                  followUp, logs, sends)

\* the mode-change note of line 343 is written; processMessage returns
LogSupportSettles ==
    /\ pc = "logSupport"
    /\ Cycle("getSession", "getSession",
             [loc EXCEPT !.response = loc.cleanResponse], mode, history, followUp,
             Append(logs, LogEntry("SYSTEM", <<"Modo SOPORTE activado automaticamente">>,
                                   "", "", NoId)),
             sends)

\* sessionManager.getSession settles
GetSessionSettles ==
    /\ pc = "getSession"
    /\ Cycle("analyzeUserResponse", "analyzeUserResponse", loc, mode, history,
             followUp, logs, sends)

\* followUpService.analyzeUserResponse settles; the reply is handed to the
\* transport
AnalyzeUserResponseSettles ==
    /\ pc = "analyzeUserResponse"
    /\ Cycle("sendMessage", "sendMessage", loc, mode, history, followUp, logs, sends)

\* this.sock.sendMessage(from, {text: response}) resolves
SendMessageSettles ==
    LET sentMsg == SendEntry(msg.remoteJid, loc.response, TRUE)
    IN /\ pc = "sendMessage"
       /\ Cycle("logBot", "log", [loc EXCEPT !.messageId = sentMsg.id], mode,
                history, followUp, logs, Append(sends, sentMsg))

\* this.sock.sendMessage(from, {text: response}) rejects; the catch of line 294
SendMessageFails ==
    /\ pc = "sendMessage"
    /\ HandleError(SendError,
                   Append(sends, SendEntry(msg.remoteJid, loc.response, FALSE)))

\* the reply logged without the id of the message sent
LogBotNoId ==
    /\ pc = "logBot"
    /\ Cycle("done", "", loc, mode, history, followUp,
             Append(logs, LogEntry("bot", loc.response, loc.userId, displayName,
                                   NoId)),
             sends)

\* logger.log('bot', ...) settles; the handler returns
LogBotSettles ==
    /\ pc = "logBot"
    /\ Cycle("done", "", loc, mode, history, followUp,
             Append(logs, LogEntry("bot", loc.response, loc.userId, displayName,
                                   loc.messageId)),
             sends)

errorMessage == IF IsConfigError(loc.error) THEN ConfigApology ELSE Apology

\* the apology is accepted by the transport; logger.log('ERROR', ...) follows
SendApologySettles ==
    /\ pc = "sendApology"
    /\ Cycle("done", "", loc, mode, history, followUp,
             Append(logs, LogEntry("ERROR", <<loc.error>>,
                                   extractUserId(msg.remoteJid), "", NoId)),
             Append(sends, SendEntry(msg.remoteJid, errorMessage, TRUE)))

\* the apology is rejected too; the inner catch only writes to the console
SendApologyFails ==
    /\ pc = "sendApology"
    /\ Cycle("done", "", loc, mode, history, followUp, logs,
             Append(sends, SendEntry(msg.remoteJid, errorMessage, FALSE)))

\* ------------------------------------------- dashboard: /api/human-states
\* an operator sets the mode of the identity while its event is dispatched
ModeWrite ==
    \E m \in Modes :
        /\ pc \notin {"idle", "done"}
        /\ m # mode
        /\ mode' = m
        /\ before' = [before EXCEPT !.sawAI = before.sawAI \/ m = "ai"]
        /\ UNCHANGED <<pc, msg, loc, history, followUp, logs, sends, calls, dash,
                       svars, tvars, pvars>>

\* ------------------------------------------- dashboard: /api/send-message
\* The endpoint shares nothing with a dispatch cycle but the transport, so a
\* request is followed from the moment the process has gone idle.
Respond(status) == [pc |-> "idle", sent |-> dash.sent, logged |-> dash.logged,
                    status |-> status]

\* a request arrives; handler up to its first await
SendMessageRequest ==
    \E valid \in BOOLEAN, bot \in BOOLEAN, client \in BOOLEAN :
        /\ pc = "idle"
        /\ dash.pc = "idle"
        /\ dash' = IF ~valid THEN [NoDash EXCEPT !.status = 400]
                   ELSE IF ~bot \/ ~client THEN [NoDash EXCEPT !.status = 503]
                   ELSE [NoDash EXCEPT !.pc = "sendMessage", !.sent = 1]
        /\ UNCHANGED <<pc, msg, loc, mode, history, followUp, logs, sends, calls,
                       before, svars, tvars, pvars>>

\* client.sendMessage resolves; logger.log('soporte', ...) is awaited
DashSendSettles ==
    /\ dash.pc = "sendMessage"
    /\ dash' = [dash EXCEPT !.pc = "log"]
    /\ UNCHANGED <<pc, msg, loc, mode, history, followUp, logs, sends, calls,
                   before, svars, tvars, pvars>>

\* the log entry is written; 200
DashLogSettles ==
    /\ dash.pc = "log"
    /\ dash' = [Respond(200) EXCEPT !.logged = TRUE]
    /\ UNCHANGED <<pc, msg, loc, mode, history, followUp, logs, sends, calls,
                   before, svars, tvars, pvars>>

\* client.sendMessage rejects; the catch of lines 504-521 answers 500
DashSendFails ==
    /\ dash.pc = "sendMessage"
    /\ dash' = Respond(500)
    /\ UNCHANGED <<pc, msg, loc, mode, history, followUp, logs, sends, calls,
                   before, svars, tvars, pvars>>

\* the session is open: the handlers above run on a connected transport
Connected ==
    /\ sock = 1
    /\ currentQR = NoQR
    /\ connectionStatus = "connected"
    /\ reconnectAttempts = 0
    /\ isReconnecting = FALSE
    /\ socks = [s \in SockIds |-> IF s = 1 THEN "open" ELSE "free"]
    /\ creds = TRUE
    /\ timers = [t \in TimerTags |-> 0]
    /\ startsAuth = 0
    /\ startsVer = [b \in BOOLEAN |-> 0]
    /\ logoutPc = "idle"
    /\ credCloses = 0
    /\ credClosesT = 0
    /\ lastOp = [Op("open") EXCEPT !.cleanup = <<1>>, !.followUp = <<1>>]

InitDispatch == Connected /\ NoDispatch /\ watch = FALSE

NextDispatch ==
    \/ Receive
    \/ GroupMetadataSettles
    \/ LogReceiptSettles
    \/ IsHumanModeSettles
    \/ IsSupportModeSettles
    \/ LogModeIgnoredSettles
    \/ AudienceFlagSettles
    \/ LogAudienceIgnoredSettles
    \/ CancelFollowUpSettles
    \/ AddUserMessageSettles
    \/ GetMessagesSettles
    \/ GenerateResponseSettles
    \/ GenerateResponseFails
    \/ SetModeSettles
    \/ UpdateSessionModeSettles
    \/ AddAssistantMessageSettles
    \/ LogSupportSettles
    \/ GetSessionSettles
    \/ AnalyzeUserResponseSettles
    \/ SendMessageSettles
    \/ SendMessageFails
    \/ LogBotSettles
    \/ SendApologySettles
    \/ SendApologyFails
    \/ ModeWrite
    \/ SendMessageRequest
    \/ DashSendSettles
    \/ DashLogSettles
    \/ DashSendFails

SpecDispatch == InitDispatch /\ [][NextDispatch]_vars

TypeOKDispatch ==
    /\ pc \in {"idle", "groupMetadata", "logReceipt", "isHumanMode",
               "isSupportMode", "logModeIgnored", "audienceFlag",
               "logAudienceIgnored", "cancelFollowUp", "addUserMessage",
               "getMessages", "generateResponse", "setMode", "updateSessionMode",
               "addAssistantMessage", "logSupport", "getSession",
               "analyzeUserResponse", "sendMessage", "logBot", "sendApology",
               "done", "rejected"}
    /\ msg \in Msgs
    /\ mode \in Modes
    /\ followUp \in BOOLEAN
    /\ Len(sends) <= 2
    /\ dash.pc \in {"idle", "sendMessage", "log"}
    /\ dash.sent \in 0..1
    /\ dash.status \in {0, 200, 400, 500, 503}

\* ------------------------------- a second cycle of the same identity
\* While the cycle above is in flight, another messages.upsert event of the
\* same identity is dispatched by the same handler; nothing serializes the two.
\* The second cycle is followed on the course on which the AI collaborator
\* answers it with the handoff marker, at the awaits after which it has acted
\* on the stores the two cycles share (mode, history, followUp).

\* the second event arrives, well-formed; lines 185-275: receipt log, mode gate
\* (lines 247-254), audience gate, cancelFollowUp
PeerReceive ==
    \E t \in Texts, enabled \in BOOLEAN :
        /\ pc \notin {"idle", "done", "rejected"}
        /\ peer = NoPeer
        /\ Trim(t) # <<>>
        /\ IF isHumanMode(mode) \/ isSupportMode(mode) \/ ~enabled
           THEN /\ peer' = [NoPeer EXCEPT !.pc = "ignored", !.text = t]
                /\ UNCHANGED followUp
           ELSE /\ peer' = [NoPeer EXCEPT !.pc = "addUserMessage", !.text = t]
                /\ followUp' = FALSE
        /\ UNCHANGED <<pc, msg, loc, mode, history, logs, sends, calls, before,
                       dash, svars, tvars>>

\* its sessionManager.addMessage(userId, 'user', ...) settles (line 313)
PeerAddUserMessageSettles ==
    /\ peer.pc = "addUserMessage"
    /\ peer' = [peer EXCEPT !.pc = "generateResponse"]
    /\ history' = Append(history, HistoryEntry("user", peer.text))
    /\ UNCHANGED <<pc, msg, loc, mode, followUp, logs, sends, calls, before,
                   dash, svars, tvars>>

\* its aiService.generateResponse resolves with the marker in the text
\* (lines 328-333)
PeerGenerateResponseSettles ==
    \E r \in Replies :
        /\ peer.pc = "generateResponse"
        /\ Includes(r, Marker)
        /\ peer' = [peer EXCEPT !.pc = "setMode",
                                !.response = Trim(ReplaceFirst(r, Marker))]
        /\ UNCHANGED <<pc, msg, loc, mode, history, followUp, logs, sends, calls,
                       before, dash, svars, tvars>>

\* its humanModeManager.setMode(userId, 'support') settles (line 336): the
\* handoff is made
PeerSetModeSettles ==
    /\ peer.pc = "setMode"
    /\ peer' = [peer EXCEPT !.pc = "addAssistantMessage"]
    /\ mode' = "support"
    /\ UNCHANGED <<pc, msg, loc, history, followUp, logs, sends, calls, before,
                   dash, svars, tvars>>

\* its updateSessionMode and addMessage(userId, 'assistant', ...) settle
\* (lines 337-340)
PeerAddAssistantMessageSettles ==
    /\ peer.pc = "addAssistantMessage"
    /\ peer' = [peer EXCEPT !.pc = "sendMessage"]
    /\ history' = Append(history, HistoryEntry("assistant", peer.response))
    /\ UNCHANGED <<pc, msg, loc, mode, followUp, logs, sends, calls, before,
                   dash, svars, tvars>>

\* its reply is sent and logged (lines 289-292); the second cycle returns
PeerSendMessageSettles ==
    /\ peer.pc = "sendMessage"
    /\ peer' = [peer EXCEPT !.pc = "done"]
    /\ UNCHANGED <<pc, msg, loc, mode, history, followUp, logs, sends, calls,
                   before, dash, svars, tvars>>

\* two cycles of one identity in flight together, no operator at the dashboard
NextPair ==
    \/ Receive
    \/ GroupMetadataSettles
    \/ LogReceiptSettles
    \/ IsHumanModeSettles
    \/ IsSupportModeSettles
    \/ LogModeIgnoredSettles
    \/ AudienceFlagSettles
    \/ LogAudienceIgnoredSettles
    \/ CancelFollowUpSettles
    \/ AddUserMessageSettles
    \/ GetMessagesSettles
    \/ GenerateResponseSettles
    \/ GenerateResponseFails
    \/ SetModeSettles
    \/ UpdateSessionModeSettles
    \/ AddAssistantMessageSettles
    \/ LogSupportSettles
    \/ GetSessionSettles
    \/ AnalyzeUserResponseSettles
    \/ SendMessageSettles
    \/ SendMessageFails
    \/ LogBotSettles
    \/ SendApologySettles
    \/ SendApologyFails
    \/ PeerReceive
    \/ PeerAddUserMessageSettles
    \/ PeerGenerateResponseSettles
    \/ PeerSetModeSettles
    \/ PeerAddAssistantMessageSettles
    \/ PeerSendMessageSettles

SpecPair == InitDispatch /\ [][NextPair]_vars

TypeOKPair ==
    /\ peer.pc \in {"idle", "ignored", "addUserMessage", "generateResponse",
                    "setMode", "addAssistantMessage", "sendMessage", "done"}
    /\ peer.text \in Texts
    /\ peer.response \in Replies

\* ------------------------------------------------ messages.update handler
\* the if-chain of lines 160-169 with 3 taken for delivered
StatusOfPlayed(code) ==
    IF code = 4 THEN "read"
    ELSE IF code = 2 \/ code = 3 THEN "delivered"
    ELSE IF code = 1 THEN "sent"
    ELSE "none"

\* the if-chain of lines 160-169; "none" is status = null
StatusOf(code) ==
    IF code = 4 THEN "read"
    ELSE IF code = 2 THEN "delivered"
    ELSE IF code = 1 THEN "sent"
    ELSE "none"

\* if (status && messageId)
Writes(u) == u.hasKey /\ StatusOf(u.status) # "none" /\ u.id # NoId

Rank(st) ==
    IF st = "read" THEN 3 ELSE IF st = "delivered" THEN 2
    ELSE IF st = "sent" THEN 1 ELSE 0

\* logger.updateMessageStatus: an update of lower rank than the stored status
\* is discarded
updateMessageStatus(st, id, status) ==
    IF Rank(status) >= Rank(st[id]) THEN [st EXCEPT ![id] = status] ELSE st

\* the for loop from update number i on, up to its next await: an element
\* without key throws into the catch of line 176, one that is not to be written
\* is passed over
RECURSIVE Iterate(_, _)
Iterate(us, out) ==
    IF Len(out) = Len(us) \/ Writes(us[Len(out) + 1]) THEN out
    ELSE Iterate(us, Append(out, IF us[Len(out) + 1].hasKey THEN "skipped"
                                 ELSE "threw"))

\* the update whose write is awaited
Awaited == updates[Len(outcomes) + 1]
Handling == Len(outcomes) < Len(updates)

\* a batch arrives for a message that has no status yet; handler up to its
\* first await. The status events of the message are followed as one batch.
StatusBatch ==
    \E us \in SeqsUpTo(Updates, MaxUpdates) :
        /\ updates = <<>>
        /\ us # <<>>
        /\ updates' = us
        /\ outcomes' = Iterate(us, <<>>)
        /\ UNCHANGED <<stored, written, pc, msg, loc, mode, history, followUp,
                       logs, sends, calls, before, dash, svars, pvars>>

\* the awaited write stores the status whatever is stored
UpdateStatusSettlesRaw ==
    /\ Handling
    /\ stored' = [stored EXCEPT ![Awaited.id] = StatusOf(Awaited.status)]
    /\ written' = written \cup {[id |-> Awaited.id, code |-> Awaited.status,
                                 status |-> StatusOf(Awaited.status)]}
    /\ outcomes' = Iterate(updates, Append(outcomes, "settled"))
    /\ UNCHANGED <<updates, pc, msg, loc, mode, history, followUp, logs, sends,
                   calls, before, dash, svars, pvars>>

\* logger.updateMessageStatus(messageId, status) settles; the loop goes on
UpdateStatusSettles ==
    /\ Handling
    /\ stored' = updateMessageStatus(stored, Awaited.id, StatusOf(Awaited.status))
    /\ written' = written \cup {[id |-> Awaited.id, code |-> Awaited.status,
                                 status |-> StatusOf(Awaited.status)]}
    /\ outcomes' = Iterate(updates, Append(outcomes, "settled"))
    /\ UNCHANGED <<updates, pc, msg, loc, mode, history, followUp, logs, sends,
                   calls, before, dash, svars, pvars>>

\* logger.updateMessageStatus rejects and the rejection leaves the for loop:
\* the handler ends with the rest of the batch unprocessed
UpdateStatusFailsStops ==
    /\ Handling
    /\ outcomes' = Append(outcomes, "failed")
    /\ UNCHANGED <<stored, written, updates, pc, msg, loc, mode, history,
                   followUp, logs, sends, calls, before, dash, svars, pvars>>

\* logger.updateMessageStatus rejects into the catch of line 176; the loop
\* goes on
UpdateStatusFails ==
    /\ Handling
    /\ outcomes' = Iterate(updates, Append(outcomes, "failed"))
    /\ UNCHANGED <<stored, written, updates, pc, msg, loc, mode, history,
                   followUp, logs, sends, calls, before, dash, svars, pvars>>

InitStatus == Connected /\ NoDispatch /\ watch = FALSE

NextStatus ==
    \/ StatusBatch
    \/ UpdateStatusSettles
    \/ UpdateStatusFails

SpecStatus == InitStatus /\ [][NextStatus]_vars

TypeOKStatus ==
    /\ stored \in [{SentId} -> Statuses]
    /\ Len(updates) <= MaxUpdates
    /\ Len(outcomes) <= Len(updates)
    /\ \A i \in 1..Len(updates) : updates[i] \in Updates
    /\ \A i \in 1..Len(outcomes) :
           outcomes[i] \in {"skipped", "threw", "settled", "failed"}

\* ------------------------------------------------------------------ claims
\* connection attempts in progress: start() suspended at an await, or a socket
\* that has neither opened nor closed yet
AttemptsInProgress ==
    InflightStarts + Cardinality({s \in SockIds : Connecting(s)})

IsStart(o) == o.op = "start"
IsCredClose(o) == o.op = "close" /\ o.code \in CredCodes
\* a close the handler treats as transient (stop() ends the socket without a code)
IsTransientClose(o) ==
    \/ o.op = "close" /\ o.code \notin CredCodes /\ o.code # loggedOut
    \/ o.op = "stop" /\ ~o.noop

\* C1: a start() call made while the guard isReconnecting is held does nothing:
\* it returns early, starts no attempt, creates no socket (and so registers no
\* handlers) and leaves connectionStatus, reconnectAttempts and currentQR alone.
C1_StartIsNoopUnderGuard ==
    [][(IsStart(lastOp') /\ isReconnecting) =>
            /\ lastOp'.noop
            /\ UNCHANGED <<supVars, socks, startsAuth, startsVer, creds>>]_vars

\* C1 witness: start() was called by a timer while an attempt held the guard.
C1_Witness ==
    /\ IsStart(lastOp) /\ lastOp.noop /\ lastOp.src = "reconnect"
    /\ isReconnecting
    /\ AttemptsInProgress > 0

\* C2: at most one reconnect is active in every reachable state: the pending
\* start() timers plus the connection attempts in progress number at most 1.
C2_AtMostOneReconnect == PendingTimers + AttemptsInProgress <= 1

C4_NoReconnectOnceFailed ==
    [][/\ (PendingTimers' > 0 \/ AttemptsInProgress' > 0)
            => reconnectAttempts' <= maxReconnectAttempts
       /\ (reconnectAttempts > maxReconnectAttempts /\ lastOp'.op # "logout")
            => (lastOp'.sched = 0 /\ ~IsStart(lastOp'))]_vars

C7_LogoutCloseIsTerminal ==
    [][(lastOp'.op = "close" /\ lastOp'.code = loggedOut) =>
            /\ lastOp'.sched = 0
            /\ lastOp'.purges = 0
            /\ reconnectAttempts' = reconnectAttempts
            /\ connectionStatus' = "disconnected"
            /\ ~isReconnecting']_vars

\* C8: no timer that was pending when logout() was called fires a start()
\* afterwards, and when the restart scheduled by logout() begins the pairing
\* challenge is cleared, the counter is 0 and the credentials are purged.
C8_LogoutCancelsAndResets ==
    [][IsStart(lastOp') =>
            /\ ~lastOp'.stale
            /\ (lastOp'.src = "logout" /\ ~lastOp'.noop) =>
                    /\ currentQR = NoQR
                    /\ reconnectAttempts = 0
                    /\ ~creds]_vars

\* C9: after every open event the counter is 0, the pairing challenge is null,
\* the status is connected, the guard is released, and the session-cleanup and
\* follow-up timers have each been armed once, with this.sock.
C9_OpenResetsAndArms ==
    lastOp.op = "open" =>
        /\ reconnectAttempts = 0
        /\ currentQR = NoQR
        /\ connectionStatus = "connected"
        /\ ~isReconnecting
        /\ lastOp.cleanup = <<sock>>
        /\ lastOp.followUp = <<sock>>

\* C9 witness: a socket opened while an earlier reconnect was still pending.
C9_Witness ==
    /\ lastOp.op = "open"
    /\ sock # NoSock
    /\ socks[sock] = "open"
    /\ PendingTimers > 0

\* C10: a pairing challenge is present only while the status is connecting.
C10_QROnlyWhileConnecting ==
    currentQR # NoQR => connectionStatus = "connecting"

\* C11: stop() does not destroy credentials: across a stop() call the saved
\* credentials are unchanged and clearSession is not invoked.
C11_StopKeepsCredentials ==
    [][lastOp'.op = "stop" => (creds' = creds /\ lastOp'.purges = 0)]_vars

\* C11 witness: stop() ended a live socket while credentials were saved.
C11_Witness ==
    /\ lastOp.op = "stop"
    /\ ~lastOp.noop
    /\ creds

\* ------------------------------------------------------- dispatch claims
\* the handler has returned
Returned == pc = "done"

StoresUntouched ==
    /\ mode = before.mode
    /\ history = before.history
    /\ followUp = before.followUp

\* C12: an inbound event with no content, one sent by the bot itself, or one
\* whose text is empty or whitespace only is absorbed: the handler returns at
\* once, with no log entry, no send, no collaborator call (so no AI call and no
\* follow-up cancellation) and no change of mode or session.
C12_MalformedAbsorbed ==
    (pc # "idle" /\ msg.count > 0 /\ (~msg.hasMessage \/ msg.fromMe \/ \A i \in 1..Len(msg.text) : msg.text[i] = Space))
        => /\ Returned
           /\ logs = <<>>
           /\ sends = <<>>
           /\ calls = <<>>
           /\ StoresUntouched

C12_Witness ==
    /\ Returned
    /\ msg.hasMessage
    /\ ~msg.fromMe
    /\ msg.text = <<Space>>
    /\ followUp
    /\ mode = "ai"

\* the calls the handler has issued to a collaborator, and its log entries of a kind
Called(name) == \E i \in 1..Len(calls) : calls[i] = name
LogsOf(kind) == {i \in 1..Len(logs) : logs[i].kind = kind}

\* the handler got past the mode gate of line 250
PassedGate == Called("isGroupsAIEnabled") \/ Called("isIndividualAIEnabled")

\* the mode stored for the identity was HUMAN or SUPPORT from the arrival of
\* the event on
NeverAI == pc # "idle" /\ ~before.sawAI

\* C13: in a dispatch cycle during which the identity's mode is not AI, the
\* receipt is logged, a suppression note is recorded, the AI collaborator is
\* not invoked and nothing is sent.
C13_NonAISuppressed ==
    (Returned /\ NeverAI /\ Called("log"))
        => /\ Cardinality(LogsOf("cliente")) = 1
           /\ Cardinality(LogsOf("SYSTEM")) = 1
           /\ ~Called("generateResponse")
           /\ sends = <<>>

\* C14: a dispatch passes the mode gate only if the stored mode was AI at
\* some instant of the gate's evaluation.
C14_GatePassesOnlyAI == PassedGate => before.sawAI

\* C15: when the AI flag of the message's audience (groups for a group
\* message, individual for a direct one) is disabled and the mode gate has let
\* the dispatch through, the cycle sends nothing, writes exactly one suppression
\* entry, never calls the AI collaborator and never sets the identity's mode.
C15_AudienceDisabledSuppressed ==
    (Returned /\ PassedGate /\ ~loc.enabled)
        => /\ sends = <<>>
           /\ Cardinality(LogsOf("SYSTEM")) = 1
           /\ ~Called("generateResponse")
           /\ ~Called("setMode")
           /\ followUp = before.followUp

C15_Witness ==
    /\ Returned
    /\ PassedGate
    /\ ~loc.enabled
    /\ isGroup
    /\ before.mode = "ai"
    /\ mode = "ai"
    /\ followUp

\* the AI collaborator answered with the handoff marker in its text and the
\* handler has returned without catching anything
HandedOff == Returned /\ Includes(loc.aiResponse, Marker) /\ loc.error = NoError

\* C16: an AI response holding the handoff marker, once or more, anywhere,
\* sets the identity's mode to SUPPORT, is sent and stored without any
\* occurrence of the marker, and is logged as exactly one mode change.
C16_MarkerHandoff ==
    HandedOff
        => /\ Called("setMode")
           /\ \A i \in 1..Len(sends) : ~Includes(sends[i].text, Marker)
           /\ \A i \in 1..Len(history) : ~Includes(history[i].content, Marker)
           /\ Cardinality(LogsOf("SYSTEM")) = 1

\* the AI collaborator rejected and the handler has returned
AIFailed == Returned /\ loc.error \in AIErrors

\* C17: when the AI collaborator raises an error, the cycle issues exactly one
\* send: the apology, to the chat the message came from.
C17_OneApologyOnAIError ==
    AIFailed
        => /\ Len(sends) = 1
           /\ sends[1].to = msg.remoteJid
           /\ sends[1].text \in {Apology, ConfigApology}
           /\ IsConfigError(loc.error) <=> sends[1].text = ConfigApology

C17_Witness ==
    /\ AIFailed
    /\ msg.remoteJid = LidJid
    /\ msg.senderPn = PhoneJid
    /\ sends = <<SendEntry(LidJid, Apology, TRUE)>>

\* C18: every failure the handler catches leaves an error log entry carrying
\* the original error's detail, whether or not the apology could be delivered.
C18_CaughtFailureLogged ==
    (Returned /\ loc.error # NoError)
        => \E i \in LogsOf("ERROR") : logs[i].text = <<loc.error>>

\* C19: when the AI collaborator raises an error, the handler leaves the
\* identity's mode alone and the stored conversation is what it was before the
\* message arrived.
C19_AIErrorLeavesState ==
    AIFailed => (~Called("setMode") /\ history = before.history)

\* C20: a send the transport rejects is never followed, in the dispatch cycle
\* or in the dashboard's send request it belongs to, by another send to the
\* same target.
C20_NoSendAfterFailedSend ==
    /\ \A i \in 1..Len(sends) :
           ~sends[i].ok => \A j \in (i + 1)..Len(sends) : sends[j].to # sends[i].to
    /\ dash.sent <= 1

\* the handler's promise rejected: an exception left the catch of line 294
Rejected == pc = "rejected"

\* C21: no failure propagates out of a dispatch cycle: whatever the event
\* (an empty message list included) and whatever a collaborator rejects with
\* (a value without a message text included), the handler ends without an
\* uncaught exception or rejected promise.
C21_NoFailurePropagates == ~Rejected

C23_StatusMapping ==
    /\ \A w \in written :
           /\ w.id # NoId
           /\ \/ w.code = 1 /\ w.status = "sent"
              \/ w.code = 2 /\ w.status = "delivered"
              \/ w.code = 4 /\ w.status = "read"
    /\ \A i \in 1..Len(outcomes) :
           (updates[i].hasKey /\ (updates[i].status \notin {1, 2, 4} \/ updates[i].id = NoId))
               => outcomes[i] = "skipped"
    /\ \A i \in DOMAIN stored :
           stored[i] # "none" => \E w \in written : w.id = i /\ w.status = stored[i]

C23_Witness ==
    /\ Len(updates) = 3
    /\ updates[1] = [hasKey |-> TRUE, id |-> SentId, status |-> 3]
    /\ updates[2] = [hasKey |-> TRUE, id |-> NoId, status |-> 4]
    /\ updates[3] = [hasKey |-> TRUE, id |-> SentId, status |-> 0]
    /\ outcomes = <<"skipped", "skipped", "skipped">>
    /\ stored[SentId] = "none"

\* an event carrying a message the early returns let through
WellFormed ==
    /\ pc # "idle"
    /\ msg.count > 0
    /\ msg.hasMessage
    /\ ~msg.fromMe
    /\ \E i \in 1..Len(msg.text) : msg.text[i] # Space

C25_StopSchedulesNoReconnect ==
    (lastOp.op = "stop" /\ ~lastOp.noop) => lastOp.sched = 0

\* the handler is through with the event
Ended == pc \in {"done", "rejected"}

AICalls == Cardinality({i \in 1..Len(calls) : calls[i] = "generateResponse"})

\* C26: every inbound message that passes the filter chain, each message of
\* an event that carries several included, leads to exactly one
\* generateResponse call, and a message the chain excludes leads to none.
C26_OneRoundTripPerMessage ==
    Ended => AICalls = IF WellFormed /\ PassedGate /\ loc.enabled THEN msg.count
                       ELSE 0

\* C27: within one dispatch cycle every keyed operation uses the same
\* identity; in particular the error entry is keyed like the receipt entry,
\* also for a direct chat whose senderPn differs from the transport address.
C27_OneIdentityPerCycle ==
    \A i \in LogsOf("cliente") \cup LogsOf("bot") \cup LogsOf("ERROR") :
        logs[i].userId = loc.userId

\* the sends of the cycle that the transport accepted with the given text
Delivered(text) == {j \in 1..Len(sends) : sends[j].ok /\ sends[j].text = text}

\* C28: every reply ('bot') entry corresponds to exactly one successful reply
\* send of the same cycle, is written after that send returned, and carries
\* the message id the transport assigned to that send.
C28_ReplyLogMatchesSend ==
    /\ Cardinality(LogsOf("bot")) <= 1
    /\ \A i \in LogsOf("bot") :
           /\ Cardinality(Delivered(logs[i].text)) = 1
           /\ \A j \in Delivered(logs[i].text) :
                  /\ sends[j].to = msg.remoteJid
                  /\ sends[j].id # NoId
                  /\ logs[i].messageId = sends[j].id
           /\ logs[i].text = loc.response
           /\ Len(sends) = 1

C28_Witness ==
    /\ Returned
    /\ isGroup
    /\ sends = <<SendEntry(GroupJid, <<"a">>, TRUE)>>
    /\ LogsOf("bot") = {Len(logs)}
    /\ logs[Len(logs)].messageId = SentId
    /\ logs[Len(logs)].name = "subject"

\* C29: a dispatch cycle cancels a pending follow-up exactly when the message
\* passes both the mode gate and the audience gate, and the cancellation is
\* complete before the AI collaborator is invoked; a dropped or suppressed
\* message never cancels one.
C29_FollowUpCancelledPastGates ==
    /\ followUp # before.followUp
           => /\ before.followUp
              /\ WellFormed
              /\ PassedGate
              /\ loc.enabled
    /\ (Called("addMessage") \/ Called("generateResponse")) => ~followUp
    /\ followUp => before.followUp

C29_Witness ==
    /\ before.followUp
    /\ ~followUp
    /\ pc = "generateResponse"
    /\ Called("cancelFollowUp")

\* C30: after a close with a transient code a new connection attempt
\* eventually begins, however many such closes came before.
C30_TransientCloseRetried ==
    IsTransientClose(lastOp) ~> (IsStart(lastOp) /\ ~lastOp.noop)

C30_Witness ==
    /\ IsStart(lastOp)
    /\ ~lastOp.noop
    /\ lastOp.src = "reconnect"
    /\ reconnectAttempts = 0
    /\ credClosesT = 0
    /\ sock # NoSock

\* the outcome the handler gives an element of the batch: one without key
\* throws into the catch, one with nothing to write is passed over, one to be
\* written awaits the write, which settles or rejects into the catch
OutcomesOf(u) ==
    IF ~u.hasKey THEN {"threw"}
    ELSE IF Writes(u) THEN {"settled", "failed"}
    ELSE {"skipped"}

\* C33: within one batch of status updates a failure on one update (an
\* element that throws, a status write that rejects) does not stop the batch:
\* the updates are processed one by one in the order of the batch, each with
\* the outcome its own content calls for whatever failed before it, and the
\* handler is never left short of the end of the batch other than suspended
\* at the status write of the next update to be written.
C33_FailureDoesNotStopBatch ==
    /\ Len(outcomes) <= Len(updates)
    /\ \A i \in 1..Len(outcomes) : outcomes[i] \in OutcomesOf(updates[i])
    /\ Handling => Writes(Awaited)
    /\ \A w \in written :
           \E i \in 1..Len(outcomes) :
               /\ outcomes[i] = "settled"
               /\ updates[i].id = w.id
               /\ updates[i].status = w.code

\* C33 witness: the batch is over; its first update threw, a later status
\* write was rejected, and the update after both was written.
C33_Witness ==
    /\ Len(updates) = 3
    /\ Len(outcomes) = 3
    /\ outcomes[1] = "threw"
    /\ outcomes[2] = "failed"
    /\ outcomes[3] = "settled"
    /\ stored[SentId] = StatusOf(updates[3].status)

\* C32: the guard isReconnecting is held only while a connection attempt is in
\* progress (start() suspended at an await, or a socket that has neither
\* opened nor closed): however a start() attempt ends, by an open, by a close
\* or by an exception raised in start(), the validation of the API key
\* included, the guard is released.
C32_GuardHeldOnlyDuringAttempt == isReconnecting => AttemptsInProgress > 0

\* the second cycle has set the mode to SUPPORT through the handoff marker
PeerHandedOff == peer.pc \in {"addAssistantMessage", "sendMessage", "done"}

\* C31: once a cycle has set the identity's mode to SUPPORT through the
\* handoff marker, no AI reply of another cycle of that identity is handed to
\* the transport while the mode is still SUPPORT, even if that other cycle
\* passed the mode gate before the handoff was made.
C31_NoReplyAfterPeerHandoff ==
    [][(pc' = "sendMessage" /\ pc # "sendMessage")
            => ~(PeerHandedOff /\ mode = "support")]_vars

====
